---- MODULE Spec2Model ----
(***************************************************************************)
(* linuxptp-daemon-log-splitter (src/main.go): one pass over a combined    *)
(* PTP daemon log, one output file per run identifier, global lines        *)
(* replicated into every run file, run_unknown fallback.                   *)
(*                                                                         *)
(* Bytes are one-character strings, a line or a file content is a sequence *)
(* of bytes.  Buffered writers (bufio.Writer) are modelled by the bytes on *)
(* disk plus the bytes still held in the writer's buffer.                  *)
(***************************************************************************)
EXTENDS Naturals, Integers, Sequences, FiniteSets, TLC

\* ------------------------------------------------------------------ bounds
\* Longest input, in lines.
MaxLines == 3
\* Capacity of a bufio.Writer, in bytes (4096 in the Go library, scaled down
\* so that lines fill, overflow and bypass the buffer).
BufSize == 16

\* ----------------------------------------------------------- byte classes
NL == "\n"
Digits == {"0", "1", "2", "3", "4", "5", "6", "7", "8", "9"}
Letters ==
    {"a", "b", "c", "d", "e", "f", "g", "h", "i", "j", "k", "l", "m",
     "n", "o", "p", "q", "r", "s", "t", "u", "v", "w", "x", "y", "z",
     "A", "B", "C", "D", "E", "F", "G", "H", "I", "J", "K", "L", "M",
     "N", "O", "P", "Q", "R", "S", "T", "U", "V", "W", "X", "Y", "Z"}

\* \w of the regexp: [0-9A-Za-z_]
WordChars == Letters \cup Digits \cup {"_"}
IsWordChar(c) == c \in WordChars
\* [A-Za-z0-9_-]
IdentChars == WordChars \cup {"-"}
IsIdentChar(c) == c \in IdentChars
\* the literal \.config
ConfigSuffix == <<".", "c", "o", "n", "f", "i", "g">>

\* ---------------------------------------------------------- Token Scanner
\* \b at the gap before s[i] (i in 1..Len(s)+1): exactly one side is \w.
WordBoundary(s, i) ==
    LET before == i > 1 /\ IsWordChar(s[i - 1])
        after == i <= Len(s) /\ IsWordChar(s[i])
    IN before # after

IsDigitLoose(c) == c \in WordChars
\* \d
IsDigit(c) == c \in Digits

\* First index >= i whose byte is not in class (Len(s)+1 when none).
RECURSIVE RunEnd(_, _, _)
RunEnd(s, i, digitsOnly) ==
    IF i > Len(s) THEN i
    ELSE IF (IF digitsOnly THEN IsDigit(s[i]) ELSE IsIdentChar(s[i]))
         THEN RunEnd(s, i + 1, digitsOnly)
         ELSE i

\* One match of runTokenPattern starting exactly at i:
\* [ok, end (index after the match), run (the captured digits)].
MatchAt(s, i) ==
    LET j == RunEnd(s, i, FALSE)          \* [A-Za-z0-9_-]+ ends before j
        d == RunEnd(s, j + 1, TRUE)       \* (\d+) is s[j+1 .. d-1]
        e == d + Len(ConfigSuffix)        \* match ends before e
        ok == /\ WordBoundary(s, i)
              /\ j > i
              /\ j <= Len(s) /\ s[j] = "."
              /\ d > j + 1
              /\ e - 1 <= Len(s)
              /\ SubSeq(s, d, e - 1) = ConfigSuffix
              /\ WordBoundary(s, e)
    IN [ok |-> ok, end |-> e, run |-> IF ok THEN SubSeq(s, j + 1, d - 1) ELSE <<>>]

\* regexp.FindAllStringSubmatch(line, -1): the captures m[1] of the leftmost,
\* non-overlapping matches, in order of occurrence.
RECURSIVE FindFrom(_, _)
FindFrom(s, i) ==
    IF i > Len(s) THEN <<>>
    ELSE LET m == MatchAt(s, i)
         IN IF m.ok THEN <<m.run>> \o FindFrom(s, m.end)
            ELSE FindFrom(s, i + 1)

FindAllStringSubmatch(s) == FindFrom(s, 1)

RunsOnLineFirst(s) ==
    LET ms == FindAllStringSubmatch(s) IN IF ms = <<>> THEN {} ELSE {ms[1]}
\* Lines 181-186, runsOnLine: the distinct identifiers of the matches.
RunsOnLine(s) ==
    LET ms == FindAllStringSubmatch(s) IN {ms[k] : k \in 1..Len(ms)}

\* ------------------------------------------------------------ line reader
\* bufReader.ReadString('\n') at offset pos: the bytes up to and including
\* the next newline, or the rest of the stream with err = io.EOF.
ReadString(in, p) ==
    LET nls == {i \in (p + 1)..Len(in) : in[i] = NL}
    IN IF nls = {}
       THEN [line |-> SubSeq(in, p + 1, Len(in)), eof |-> TRUE]
       ELSE LET n == CHOOSE i \in nls : \A k \in nls : i <= k
            IN [line |-> SubSeq(in, p + 1, n), eof |-> FALSE]

\* Lines 163-165: a line without terminator gets one.
TerminateNever(l) == l
Terminate(l) == IF Len(l) = 0 \/ l[Len(l)] # NL THEN l \o <<NL>> ELSE l

\* ---------------------------------------------------------- bufio.Writer
\* A writer is [file |-> bytes on disk, buf |-> bytes held in its buffer].
Writer(file, buf) == [file |-> file, buf |-> buf]

\* What the writer has been given so far, in order.
Content(w) == w.file \o w.buf

\* How many bytes of an n-byte write reach the disk when the write fails:
\* none, or a proper prefix.
ShortCounts(n) == {k \in {0, n \div 2} : k < n}

FlushAtStart(w) == [file |-> w.buf \o w.file, buf |-> <<>>]
\* Writer.Flush, the underlying write succeeding.
FlushOK(w) == Writer(w.file \o w.buf, <<>>)

\* Writer.Flush, the underlying write failing: the bytes written leave the
\* buffer, the rest stays.  An empty buffer is never written, so cannot fail.
FlushFail(w) ==
    {Writer(w.file \o SubSeq(w.buf, 1, k), SubSeq(w.buf, k + 1, Len(w.buf))) :
        k \in ShortCounts(Len(w.buf))}

\* Writer.WriteString(s), every underlying write succeeding: while s exceeds
\* the free space, an empty buffer is bypassed (s goes to the file), a
\* non-empty one is filled and flushed; what is left is copied to the buffer.
WriteStringBypass(w, s) ==
    IF Len(s) > BufSize - Len(w.buf)
    THEN Writer(w.file \o s, w.buf)
    ELSE Writer(w.file, w.buf \o s)
RECURSIVE WriteStringOK(_, _)
WriteStringOK(w, s) ==
    IF Len(s) > BufSize - Len(w.buf)
    THEN IF Len(w.buf) = 0
         THEN Writer(w.file \o s, <<>>)
         ELSE LET n == BufSize - Len(w.buf)
              IN WriteStringOK(FlushOK(Writer(w.file, w.buf \o SubSeq(s, 1, n))),
                               SubSeq(s, n + 1, Len(s)))
    ELSE Writer(w.file, w.buf \o s)

\* Writer.WriteString(s) returning an error: the writer states a failing
\* underlying write can leave.  Empty when s fits the buffer (nothing is
\* written to the file then).
RECURSIVE WriteStringFail(_, _)
WriteStringFail(w, s) ==
    IF Len(s) > BufSize - Len(w.buf)
    THEN IF Len(w.buf) = 0
         THEN {Writer(w.file \o SubSeq(s, 1, k), <<>>) : k \in ShortCounts(Len(s))}
         ELSE LET n == BufSize - Len(w.buf)
                  full == Writer(w.file, w.buf \o SubSeq(s, 1, n))
              IN FlushFail(full)
                     \cup WriteStringFail(FlushOK(full), SubSeq(s, n + 1, Len(s)))
    ELSE {}

\* How many bytes io.Copy has written to the destination when it fails.
CopyCounts(n) == {0, n \div 2}

\* map assignment m[k] = v
Put(m, k, v) == [x \in DOMAIN m \cup {k} |-> IF x = k THEN v ELSE m[x]]

\* ------------------------------------------------------------------ inputs
Tok(name, id) == name \o <<".">> \o id \o ConfigSuffix
LineGlobal == <<"a">>
LineRun1 == Tok(<<"p">>, <<"1">>)
LineRun2 == Tok(<<"p">>, <<"2">>)
LineRun01 == Tok(<<"p">>, <<"0", "1">>)
LineRun1And2 == LineRun1 \o <<" ">> \o Tok(<<"q">>, <<"2">>)
LineRun1Twice == LineRun1 \o <<" ">> \o Tok(<<"q">>, <<"1">>)
LineMalformed == Tok(<<"p">>, <<"x">>)
Vocabulary ==
    {LineGlobal, LineRun1, LineRun2, LineRun01, LineRun1And2, LineRun1Twice,
     LineMalformed}

RECURSIVE Concat(_)
Concat(ls) == IF ls = <<>> THEN <<>> ELSE Head(ls) \o Concat(Tail(ls))

\* The byte stream of the lines ls, the last one with or without terminator.
Stream(ls, terminated) ==
    LET all == Concat([k \in 1..Len(ls) |-> ls[k] \o <<NL>>])
    IN IF terminated \/ ls = <<>> THEN all ELSE SubSeq(all, 1, Len(all) - 1)

Inputs ==
    {Stream(ls, t) : ls \in UNION {[1..n -> Vocabulary] : n \in 0..MaxLines},
                     t \in BOOLEAN}

\* ------------------------------------------------------------------- state
VARIABLES
    input,        \* the whole input stream (inputReader)
    pos,          \* bytes of it consumed by bufReader
    pc,           \* where main is: read, writeCommon, broadcast, route,
                  \* flushCommon, finalize, promote, done, fatal
    line,         \* line (terminated) of the current iteration
    eof,          \* err == io.EOF in the current iteration
    pending,      \* keys the current range loop has not visited yet
    tmp,          \* P.common.tmp on disk: [exists, data]
    commonBuf,    \* bytes held by commonWriter
    runFiles,     \* P.run_<id>.log on disk, by id
    runOutputs,   \* runOutputs: id -> bytes held by ro.writer
    closed,       \* ids whose ro.file has been closed
    unknown,      \* P.run_unknown.log on disk: [exists, data]
    anyRunFound,
    exitCode,     \* argument of os.Exit (0 when main returns)
    stderr,       \* last message printed to stderr
    ioErr         \* the kinds of I/O operation that have returned an error

vars ==
    <<input, pos, pc, line, eof, pending, tmp, commonBuf, runFiles, runOutputs,
      closed, unknown, anyRunFound, exitCode, stderr, ioErr>>

NoFile == [exists |-> FALSE, data |-> <<>>]
CommonW == Writer(tmp.data, commonBuf)
RunW(r) == Writer(runFiles[r], runOutputs[r])

\* After os.Create(commonTempPath) and the construction of the writers,
\* the map and the reader (lines 102-152).
Init ==
    /\ input \in Inputs
    /\ pos = 0
    /\ pc = "read"
    /\ line = <<>>
    /\ eof = FALSE
    /\ pending = {}
    /\ tmp = [exists |-> TRUE, data |-> <<>>]
    /\ commonBuf = <<>>
    /\ runFiles = <<>>
    /\ runOutputs = <<>>
    /\ closed = {}
    /\ unknown = NoFile
    /\ anyRunFound = FALSE
    /\ exitCode = 0
    /\ stderr = ""
    /\ ioErr = {}

\* ----------------------------------------------------------------- actions
\* os.Exit(2) after a diagnostic: deferred functions do not run, buffers are
\* not flushed, files stay as they are.
Fatal(msg, kinds) ==
    /\ pc' = "fatal"
    /\ exitCode' = 2
    /\ stderr' = msg
    /\ ioErr' = ioErr \cup kinds

AfterLineBreak == "flushCommon"
\* Lines 200-202: the loop ends after the iteration that saw io.EOF.
AfterLine == IF eof THEN "flushCommon" ELSE "read"

\* Line 168: the line carries no run token.
NoMatchAlways(l) == TRUE
NoMatch(l) == Len(FindAllStringSubmatch(l)) = 0

EndOfInputAnyEOF(r) == r.eof
\* Line 160: the read met the end of the stream and returned no byte.
EndOfInput(r) == r.eof /\ Len(r.line) = 0

\* Lines 155-167 and 180-186: read one line and classify it.
ReadLine ==
    /\ pc = "read"
    /\ \/ /\ Fatal("error: reading input", {"read"})
          /\ UNCHANGED <<input, pos, line, eof, pending, tmp, commonBuf, runFiles,
                         runOutputs, closed, unknown, anyRunFound>>
       \/ LET r == ReadString(input, pos)
              l == Terminate(r.line)
              runs == RunsOnLine(l)
          IN /\ pos' = pos + Len(r.line)
             /\ eof' = r.eof
             /\ IF EndOfInput(r)
                THEN /\ pc' = "flushCommon"
                     /\ UNCHANGED <<line, pending, anyRunFound>>
                ELSE /\ line' = l
                     /\ IF NoMatch(l)
                        THEN /\ pc' = "writeCommon"
                             /\ UNCHANGED <<pending, anyRunFound>>
                        ELSE /\ pc' = "route"
                             /\ anyRunFound' = TRUE
                             /\ pending' = runs
             /\ UNCHANGED <<input, tmp, commonBuf, runFiles, runOutputs, closed,
                            unknown, exitCode, stderr, ioErr>>

\* Line 173: the sinks a global line is broadcast to.
BroadcastNone == {}
BroadcastTargets == DOMAIN runOutputs

\* Lines 169-172: the global line goes to the common writer.
WriteCommon ==
    /\ pc = "writeCommon"
    /\ \/ \E w \in WriteStringFail(CommonW, line) :
             /\ tmp' = [tmp EXCEPT !.data = w.file]
             /\ commonBuf' = w.buf
             /\ Fatal("error: writing common temp file", {"write"})
             /\ UNCHANGED pending
       \/ LET w == WriteStringOK(CommonW, line)
          IN /\ tmp' = [tmp EXCEPT !.data = w.file]
             /\ commonBuf' = w.buf
             /\ pending' = BroadcastTargets
             /\ pc' = IF BroadcastTargets = {} THEN AfterLine ELSE "broadcast"
             /\ UNCHANGED <<exitCode, stderr, ioErr>>
    /\ UNCHANGED <<input, pos, line, eof, runFiles, runOutputs, closed, unknown,
                   anyRunFound>>

\* Lines 173-178, one iteration of the range over runOutputs (map order).
Broadcast(r) ==
    /\ pc = "broadcast"
    /\ r \in pending
    /\ \/ \E w \in WriteStringFail(RunW(r), line) :
             /\ runFiles' = [runFiles EXCEPT ![r] = w.file]
             /\ runOutputs' = [runOutputs EXCEPT ![r] = w.buf]
             /\ Fatal("error: writing run file", {"write"})
             /\ UNCHANGED pending
       \/ LET w == WriteStringOK(RunW(r), line)
          IN /\ runFiles' = [runFiles EXCEPT ![r] = w.file]
             /\ runOutputs' = [runOutputs EXCEPT ![r] = w.buf]
             /\ pending' = pending \ {r}
             /\ pc' = IF pending' = {} THEN AfterLine ELSE "broadcast"
             /\ UNCHANGED <<exitCode, stderr, ioErr>>
    /\ UNCHANGED <<input, pos, line, eof, tmp, commonBuf, closed, unknown,
                   anyRunFound>>

RoutedBytesPerMatch(r) ==
    LET ms == FindAllStringSubmatch(line)
    IN Concat([k \in 1..Cardinality({i \in 1..Len(ms) : ms[i] = r}) |-> line])
RoutedBytesFirstOnly(r) == IF pending = RunsOnLine(line) THEN line ELSE <<>>
\* Line 193: what the writer of run r is given in the iteration for r of the
\* range over runsOnLine: the line, once.
RoutedBytes(r) == line

\* Lines 193-196: the tagged line goes to the run's writer w over file f.
RunWrite(r, f, b) ==
    \/ \E w \in WriteStringFail(Writer(f, b), RoutedBytes(r)) :
          /\ runFiles' = Put(runFiles, r, w.file)
          /\ runOutputs' = Put(runOutputs, r, w.buf)
          /\ Fatal("error: writing run file for", {"write"})
          /\ UNCHANGED pending
    \/ LET w == WriteStringOK(Writer(f, b), RoutedBytes(r))
       IN /\ runFiles' = Put(runFiles, r, w.file)
          /\ runOutputs' = Put(runOutputs, r, w.buf)
          /\ pending' = pending \ {r}
          /\ pc' = IF pending' = {} THEN AfterLine ELSE "route"
          /\ UNCHANGED <<exitCode, stderr, ioErr>>

\* Lines 130-139: what io.Copy reads from the common temp file, the common
\* writer having been flushed first.
SeedDataUnflushed == tmp.data
SeedDataEmpty == <<>>
SeedData == FlushOK(CommonW).file

\* Lines 120-149, the run not yet in runOutputs: create the file, flush the
\* common writer, copy the common temp file into the new file.  io.Copy on
\* a fresh bufio.Writer over an *os.File hands the copy to the file
\* (Writer.ReadFrom with nothing buffered), so the seed is on disk and the
\* writer's buffer is empty afterwards.
OpenNewRun(r) ==
    \/ /\ Fatal("error: opening run file for", {"create"})
       /\ UNCHANGED <<tmp, commonBuf, runFiles, runOutputs, pending>>
    \/ \E w \in FlushFail(CommonW) :
          /\ runFiles' = Put(runFiles, r, <<>>)
          /\ tmp' = [tmp EXCEPT !.data = w.file]
          /\ commonBuf' = w.buf
          /\ Fatal("error: opening run file for", {"flush"})
          /\ UNCHANGED <<runOutputs, pending>>
    \/ /\ runFiles' = Put(runFiles, r, <<>>)
       /\ tmp' = [tmp EXCEPT !.data = FlushOK(CommonW).file]
       /\ commonBuf' = <<>>
       /\ Fatal("error: opening run file for", {"open"})
       /\ UNCHANGED <<runOutputs, pending>>
    \/ \E k \in CopyCounts(Len(Content(CommonW))) :
          /\ runFiles' = Put(runFiles, r, SubSeq(Content(CommonW), 1, k))
          /\ tmp' = [tmp EXCEPT !.data = FlushOK(CommonW).file]
          /\ commonBuf' = <<>>
          /\ Fatal("error: opening run file for", {"copy"})
          /\ UNCHANGED <<runOutputs, pending>>
    \/ /\ tmp' = [tmp EXCEPT !.data = FlushOK(CommonW).file]
       /\ commonBuf' = <<>>
       /\ RunWrite(r, SeedData, <<>>)

IsOpenNever(r) == FALSE
\* Line 121: the run has its entry in runOutputs.
IsOpen(r) == r \in DOMAIN runOutputs

\* Lines 187-197, one iteration of the range over runsOnLine (map order):
\* openRun (lookup or create) and the write of the line.
Route(r) ==
    /\ pc = "route"
    /\ r \in pending
    /\ IF IsOpen(r)
       THEN /\ RunWrite(r, runFiles[r], runOutputs[r])
            /\ UNCHANGED <<tmp, commonBuf>>
       ELSE OpenNewRun(r)
    /\ UNCHANGED <<input, pos, line, eof, closed, unknown, anyRunFound>>

\* Lines 205-208.
FlushCommon ==
    /\ pc = "flushCommon"
    /\ \/ \E w \in FlushFail(CommonW) :
             /\ tmp' = [tmp EXCEPT !.data = w.file]
             /\ commonBuf' = w.buf
             /\ Fatal("error: flushing common temp file", {"flush"})
             /\ UNCHANGED pending
       \/ /\ tmp' = [tmp EXCEPT !.data = FlushOK(CommonW).file]
          /\ commonBuf' = <<>>
          /\ pending' = DOMAIN runOutputs
          /\ pc' = IF DOMAIN runOutputs = {} THEN "promote" ELSE "finalize"
          /\ UNCHANGED <<exitCode, stderr, ioErr>>
    /\ UNCHANGED <<input, pos, line, eof, runFiles, runOutputs, closed, unknown,
                   anyRunFound>>

\* Lines 209-218, one iteration of the range over runOutputs: flush, close.
FinalizeRun(r) ==
    /\ pc = "finalize"
    /\ r \in pending
    /\ \/ \E w \in FlushFail(RunW(r)) :
             /\ runFiles' = [runFiles EXCEPT ![r] = w.file]
             /\ runOutputs' = [runOutputs EXCEPT ![r] = w.buf]
             /\ Fatal("error: flushing run file for", {"flush"})
             /\ UNCHANGED <<pending, closed>>
       \/ /\ runFiles' = [runFiles EXCEPT ![r] = FlushOK(RunW(r)).file]
          /\ runOutputs' = [runOutputs EXCEPT ![r] = <<>>]
          /\ Fatal("error: closing run file for", {"close"})
          /\ UNCHANGED <<pending, closed>>
       \/ /\ runFiles' = [runFiles EXCEPT ![r] = FlushOK(RunW(r)).file]
          /\ runOutputs' = [runOutputs EXCEPT ![r] = <<>>]
          /\ closed' = closed \cup {r}
          /\ pending' = pending \ {r}
          /\ pc' = IF pending' = {} THEN "promote" ELSE "finalize"
          /\ UNCHANGED <<exitCode, stderr, ioErr>>
    /\ UNCHANGED <<input, pos, line, eof, tmp, commonBuf, unknown, anyRunFound>>

\* main returns: the deferred function of lines 108-111 closes the common
\* file (error dropped) and removes the temp file (error dropped; nothing to
\* remove once it has been renamed).
Return(msg, dropped) ==
    /\ pc' = "done"
    /\ exitCode' = 0
    /\ stderr' = msg
    /\ tmp' = NoFile
    /\ \E closeFails \in BOOLEAN :
          ioErr' = ioErr \cup dropped \cup (IF closeFails THEN {"close"} ELSE {})

FallbackCopyHalf == SubSeq(tmp.data, 1, Len(tmp.data) \div 2)
\* Lines 227-245: what io.Copy writes to P.run_unknown.log, the copy
\* succeeding: the common temp file.
FallbackCopy == tmp.data

\* Line 220.
FallbackAlways == TRUE
Fallback == ~anyRunFound

\* Lines 220-248 and the deferred function: with a run found main returns;
\* without, the common temp file is closed (error dropped) and renamed to
\* P.run_unknown.log, or copied to it when the rename fails.
Promote ==
    /\ pc = "promote"
    /\ \/ /\ ~Fallback
          /\ Return(stderr, {})
          /\ UNCHANGED unknown
       \/ /\ Fallback
          /\ \E closeFails \in BOOLEAN :
                LET dropped == IF closeFails THEN {"close"} ELSE {}
                IN \/ /\ unknown' = [exists |-> TRUE, data |-> tmp.data]
                      /\ Return("No run tokens found. Wrote all lines to", dropped)
                   \/ /\ Fatal("error: opening common temp for copy", dropped \cup {"rename", "open"})
                      /\ UNCHANGED <<tmp, unknown>>
                   \/ /\ Fatal("error: creating", dropped \cup {"rename", "create"})
                      /\ UNCHANGED <<tmp, unknown>>
                   \/ \E k \in CopyCounts(Len(tmp.data)) :
                         /\ unknown' = [exists |-> TRUE,
                                        data |-> SubSeq(tmp.data, 1, k)]
                         /\ Fatal("error: copying to", dropped \cup {"rename", "copy"})
                         /\ UNCHANGED tmp
                   \/ \E wfCloseFails \in BOOLEAN :
                         /\ unknown' = [exists |-> TRUE, data |-> FallbackCopy]
                         /\ Return("No run tokens found. Wrote all lines to",
                                   dropped \cup {"rename"}
                                       \cup (IF wfCloseFails THEN {"close"} ELSE {}))
    /\ UNCHANGED <<input, pos, line, eof, pending, commonBuf, runFiles, runOutputs,
                   closed, anyRunFound>>

Next ==
    \/ ReadLine
    \/ WriteCommon
    \/ \E r \in pending : Broadcast(r)
    \/ \E r \in pending : Route(r)
    \/ FlushCommon
    \/ \E r \in pending : FinalizeRun(r)
    \/ Promote

Spec == Init /\ [][Next]_vars

\* The scheduler runs the single thread until it exits.
FairSpec == Spec /\ WF_vars(Next)

\* ------------------------------------------------- vocabulary of the claims
\* A byte stream cut into lines, each with its terminator; bytes after the
\* last terminator form a last, unterminated element.
RECURSIVE LineEnd(_, _)
LineEnd(b, i) == IF i >= Len(b) \/ b[i] = NL THEN i ELSE LineEnd(b, i + 1)
RECURSIVE LinesFrom(_, _)
LinesFrom(b, i) ==
    IF i > Len(b) THEN <<>>
    ELSE LET n == LineEnd(b, i) IN <<SubSeq(b, i, n)>> \o LinesFrom(b, n + 1)
LinesOf(b) == LinesFrom(b, 1)

\* A stream whose final line has its terminator.
WithFinalNewline(b) == IF b = <<>> \/ b[Len(b)] = NL THEN b ELSE b \o <<NL>>

\* The identifiers the Token Scanner finds on a line (the scan of each
\* whole input line is tabulated once).
ScanIds(l) ==
    LET ms == FindAllStringSubmatch(l) IN {ms[k] : k \in 1..Len(ms)}
KnownIds == [l \in {v \o <<NL>> : v \in Vocabulary} |-> ScanIds(l)]
IdsOf(l) == IF l \in DOMAIN KnownIds THEN KnownIds[l] ELSE ScanIds(l)
IsGlobalLine(l) == IdsOf(l) = {}

\* The input lines read so far (the last one is being routed while main is
\* between the read and the end of the iteration), and those of the whole input.
ReadLines == LinesOf(WithFinalNewline(SubSeq(input, 1, pos)))
AllLines == LinesOf(WithFinalNewline(input))
AllIds == UNION {IdsOf(AllLines[i]) : i \in 1..Len(AllLines)}

\* main is between two iterations, or past the loop, and has not aborted.
LineDone == pc \in {"read", "flushCommon", "finalize", "promote", "done"}
\* The common temp file still backs the Common Buffer.
BufferLive == pc \in {"read", "flushCommon", "finalize", "promote"}

\* The elements of ls at the indices where keep is TRUE, in order.
RECURSIVE PickFrom(_, _, _)
PickFrom(ls, keep, i) ==
    IF i > Len(ls) THEN <<>>
    ELSE (IF keep[i] THEN <<ls[i]>> ELSE <<>>) \o PickFrom(ls, keep, i + 1)
Pick(ls, keep) == PickFrom(ls, keep, 1)

GlobalOnly(ls) == Pick(ls, [i \in 1..Len(ls) |-> IsGlobalLine(ls[i])])
Count(l, ls) == Cardinality({i \in 1..Len(ls) : ls[i] = l})

\* What a sink has been given: its file and, while open, its writer's buffer.
SinkContent(r) ==
    runFiles[r] \o (IF r \in DOMAIN runOutputs THEN runOutputs[r] ELSE <<>>)
CommonContent == tmp.data \o commonBuf

\* The content the spec gives the sink of R for the lines ls: the no-token
\* lines before R's first occurrence, then from it on the lines that are
\* no-token or tagged with R.
ExpectedSink(R, ls) ==
    LET occ == {i \in 1..Len(ls) : R \in IdsOf(ls[i])}
        first == CHOOSE i \in occ : \A k \in occ : i <= k
    IN Pick(ls, [i \in 1..Len(ls) |->
                    IF i < first THEN IsGlobalLine(ls[i])
                    ELSE IsGlobalLine(ls[i]) \/ R \in IdsOf(ls[i])])

\* ------------------------------------------------------------------ claims
\* C1: after a successful run the file of every run identifier R of the
\* input holds exactly the no-token lines before R's first occurrence
\* followed by the lines from there on that are no-token or tagged with R,
\* in input order.
C1_SinkContent ==
    pc = "done" =>
        \A R \in AllIds :
            /\ R \in DOMAIN runFiles
            /\ runFiles[R] = Concat(ExpectedSink(R, AllLines))

\* Example 3 of the spec: a global line before and one after the discovery.
C1_Witness ==
    /\ pc = "done"
    /\ input = Stream(<<LineGlobal, LineRun1, LineGlobal>>, TRUE)
    /\ runFiles[<<"1">>] = input

\* C2: after each fully processed line the no-token lines of every open
\* sink are the Common Buffer, each once and in order; at the end every run
\* file holds every global line of the input.
C2_GlobalsEverywhere ==
    /\ BufferLive =>
          \A r \in DOMAIN runOutputs :
              GlobalOnly(LinesOf(SinkContent(r))) = LinesOf(CommonContent)
    /\ pc = "done" =>
          \A r \in DOMAIN runFiles :
              GlobalOnly(LinesOf(runFiles[r])) = GlobalOnly(AllLines)

\* A sink opened between two global lines holds both.
C2_Witness ==
    /\ pc = "flushCommon"
    /\ <<"1">> \in DOMAIN runOutputs
    /\ LinesOf(SinkContent(<<"1">>))
          = <<LineGlobal \o <<NL>>, LineRun1 \o <<NL>>, LineGlobal \o <<NL>>>>
    /\ LinesOf(CommonContent) = <<LineGlobal \o <<NL>>, LineGlobal \o <<NL>>>>

\* C3 as stated: with no run token in the input the fallback file is the
\* verbatim input.
C3_Verbatim ==
    (pc = "done" /\ AllIds = {}) => (unknown.exists /\ unknown.data = input)

\* C3 amended: with no run token in the input the fallback file is the
\* input with a terminator added to a final line that lacks one.
C3_VerbatimTerminated ==
    (pc = "done" /\ AllIds = {}) =>
        (unknown.exists /\ unknown.data = WithFinalNewline(input))

\* A fallback file written for an input whose last line has no terminator.
C3_Witness ==
    /\ pc = "done"
    /\ unknown.exists
    /\ input = Stream(<<LineGlobal, LineMalformed>>, FALSE)

\* C4: a successful run leaves either one run file per identifier matched
\* and no fallback file, or (no identifier matched) the fallback file and
\* no run file.
C4_OutputShape ==
    pc = "done" =>
        IF AllIds # {}
        THEN ~unknown.exists /\ DOMAIN runFiles = AllIds
        ELSE unknown.exists /\ DOMAIN runFiles = {}

C4_Witness ==
    /\ pc = "done"
    /\ ~unknown.exists
    /\ Cardinality(DOMAIN runFiles) = 3

\* C5: a line tagged with two identifiers is in the sinks of both, as often
\* as it was read, and in no other sink nor in the Common Buffer.
C5_TwoIds ==
    LineDone =>
        LET read == ReadLines
            held == [r \in DOMAIN runOutputs |-> LinesOf(SinkContent(r))]
        IN \A l \in {read[i] : i \in 1..Len(read)} :
              Cardinality(IdsOf(l)) = 2 =>
                  /\ IdsOf(l) \subseteq DOMAIN runOutputs
                  /\ \A r \in DOMAIN runOutputs :
                        Count(l, held[r])
                            = IF r \in IdsOf(l) THEN Count(l, read) ELSE 0
                  /\ Count(l, LinesOf(CommonContent)) = 0
                  /\ ~unknown.exists

\* A two-identifier line read twice, and a third sink opened after it.
C5_Witness ==
    /\ pc = "flushCommon"
    /\ ReadLines = <<LineRun1And2 \o <<NL>>, LineRun1And2 \o <<NL>>,
                     LineRun01 \o <<NL>>>>
    /\ DOMAIN runOutputs = {<<"1">>, <<"2">>, <<"0", "1">>}

\* C6 as stated: in every terminal state, successful or fatal, the scratch
\* file P.common.tmp is gone.
C6_ScratchGone == pc \in {"done", "fatal"} => ~tmp.exists

\* C7 as stated: a failed read, create, write, flush or close stops the
\* process at once with a non-zero exit status and a diagnostic.
C7_FailuresFatal ==
    ioErr \cap {"read", "create", "write", "flush", "close"} # {} =>
        (pc = "fatal" /\ exitCode # 0 /\ stderr # "")

\* The end of the line that starts after the bytes consumed so far.
NextLineEnd == pos + Len(LinesOf(SubSeq(input, pos + 1, Len(input)))[1])

\* One pass: the read position only advances, by one whole line per read,
\* and that line is the one classified (tagged iff the scanner finds an
\* identifier on it).
OnePassStep ==
    /\ pos' >= pos
    /\ line' # line => pos' > pos
    /\ pos' > pos =>
          /\ pc = "read"
          /\ pos' = NextLineEnd
          /\ line' = WithFinalNewline(SubSeq(input, pos + 1, pos'))
          /\ pc' = IF IsGlobalLine(line') THEN "writeCommon" ELSE "route"

\* C8: the program terminates (completed or aborted); when it completes the
\* whole input has been read, each line once and in order.
C8_Terminates ==
    /\ <>(pc \in {"done", "fatal"})
    /\ [](pc = "done" => pos = Len(input))
    /\ [][OnePassStep]_vars

C8_Witness == pc = "done" /\ pos = Len(input) /\ Len(AllLines) = 3

IsPrefix(a, b) == Len(a) <= Len(b) /\ SubSeq(b, 1, Len(a)) = a

\* xs from index i on is a subsequence of ys from index j on; a last,
\* unterminated element of xs (a line cut short by a failed write) may be
\* the beginning of an element of ys.
RECURSIVE EmbedsFrom(_, _, _, _)
EmbedsFrom(xs, i, ys, j) ==
    IF i > Len(xs) THEN TRUE
    ELSE IF j > Len(ys) THEN FALSE
    ELSE LET x == xs[i]
             fits == \/ x = ys[j]
                     \/ i = Len(xs) /\ x[Len(x)] # NL /\ IsPrefix(x, ys[j])
         IN IF fits THEN EmbedsFrom(xs, i + 1, ys, j + 1)
            ELSE EmbedsFrom(xs, i, ys, j + 1)
Embeds(xs, ys) == EmbedsFrom(xs, 1, ys, 1)

\* C9: sinks and the Common Buffer are append-only (every step keeps the old
\* content as a prefix of the new one) and hold a subsequence of the lines
\* read so far, in input order.
C9_AppendOnly ==
    /\ [](/\ \A r \in DOMAIN runFiles : Embeds(LinesOf(SinkContent(r)), ReadLines)
          /\ Embeds(LinesOf(CommonContent), ReadLines)
          /\ Embeds(LinesOf(unknown.data), ReadLines))
    /\ [][/\ \A r \in DOMAIN runFiles : IsPrefix(SinkContent(r), SinkContent(r)')
          /\ tmp'.exists => IsPrefix(CommonContent, CommonContent')
          /\ IsPrefix(unknown.data, unknown.data')]_vars

\* A sink that holds its seed and a later line, a line of another run
\* between them left out.
C9_Witness ==
    /\ ReadLines = <<LineGlobal \o <<NL>>, LineRun1 \o <<NL>>, LineRun2 \o <<NL>>>>
    /\ <<"2">> \in DOMAIN runOutputs
    /\ LinesOf(SinkContent(<<"2">>)) = <<LineGlobal \o <<NL>>, LineRun2 \o <<NL>>>>

\* C10: after each fully processed line the Common Buffer is the sequence of
\* the no-token lines read so far, and every line a sink holds is a no-token
\* line or one tagged with the sink's identifier (none tagged only with
\* other identifiers, whenever the sink was opened).
C10_CommonBuffer ==
    /\ BufferLive => LinesOf(CommonContent) = GlobalOnly(ReadLines)
    /\ LineDone =>
          \A r \in DOMAIN runOutputs :
              LET held == LinesOf(SinkContent(r))
              IN \A k \in 1..Len(held) :
                    IsGlobalLine(held[k]) \/ r \in IdsOf(held[k])

\* Run 2 discovered after a line of run 1 and a global line: it is seeded
\* with the global line alone.
C10_Witness ==
    /\ pc = "promote"
    /\ ReadLines = <<LineRun1 \o <<NL>>, LineGlobal \o <<NL>>, LineRun2 \o <<NL>>>>
    /\ tmp.data = LineGlobal \o <<NL>>
    /\ runFiles[<<"2">>] = LineGlobal \o <<NL>> \o LineRun2 \o <<NL>>

\* C11: the step that creates a sink flushes the Common Buffer and gives
\* the new sink the whole of it (every no-token line read so far, buffered
\* or on disk) and then the triggering line.
C11_SeedBeforeLine ==
    [][\A r \in (DOMAIN runOutputs') \ DOMAIN runOutputs :
          /\ CommonContent = Concat(GlobalOnly(ReadLines))
          /\ tmp'.data = CommonContent
          /\ commonBuf' = <<>>
          /\ IsPrefix(CommonContent, SinkContent(r)')
          /\ pc' # "fatal" => SinkContent(r)' = CommonContent \o line]_vars

\* Sink 1 created while the global line was still in the common writer's
\* buffer: the line is now in the temp file and at the head of the sink.
C11_Witness ==
    /\ ReadLines = <<LineGlobal \o <<NL>>, LineRun1 \o <<NL>>>>
    /\ tmp.data = LineGlobal \o <<NL>>
    /\ commonBuf = <<>>
    /\ <<"1">> \in DOMAIN runOutputs
    /\ SinkContent(<<"1">>) = LineGlobal \o <<NL>> \o LineRun1 \o <<NL>>

\* C12: a line on which an identifier occurs several times is in that
\* identifier's sink once for each time the line was read.
C12_OncePerIdentifier ==
    LineDone =>
        LET read == ReadLines
            held == [r \in DOMAIN runOutputs |-> LinesOf(SinkContent(r))]
        IN \A l \in {read[i] : i \in 1..Len(read)} :
              Len(FindAllStringSubmatch(l)) > Cardinality(IdsOf(l)) =>
                  \A r \in IdsOf(l) :
                      /\ r \in DOMAIN runOutputs
                      /\ Count(l, held[r]) = Count(l, read)

\* The line with two tokens of run 1 has been routed.
C12_Witness ==
    /\ pc = "flushCommon"
    /\ ReadLines = <<LineGlobal \o <<NL>>, LineRun1Twice \o <<NL>>>>
    /\ SinkContent(<<"1">>) = LineGlobal \o <<NL>> \o LineRun1Twice \o <<NL>>

\* One step of a sink's life: it stays open once open and closed once
\* closed; it is created by the first line that carries its identifier,
\* with no file of it there before; an open sink only grows, by the line
\* when its identifier is routed; a closed sink does not change.
LifecycleStep(r) ==
    /\ r \in DOMAIN runOutputs => r \in DOMAIN runOutputs'
    /\ r \in closed => r \in closed'
    /\ (r \notin DOMAIN runOutputs /\ r \in DOMAIN runOutputs') =>
          /\ pc = "route" /\ r \in IdsOf(line)
          /\ r \notin DOMAIN runFiles
          /\ \A i \in 1..(Len(ReadLines) - 1) : r \notin IdsOf(ReadLines[i])
    /\ r \in DOMAIN runOutputs =>
          /\ IsPrefix(SinkContent(r), SinkContent(r)')
          /\ (pc = "route" /\ r \in pending /\ r \notin pending') =>
                SinkContent(r)' = SinkContent(r) \o line
    /\ (r \notin closed /\ r \in closed') => pc = "finalize"
    /\ r \in closed =>
          runFiles'[r] = runFiles[r] /\ runOutputs'[r] = runOutputs[r]

\* C13: every sink goes Unopened -> Open -> Finalized and never back, is
\* created once, at the first occurrence of its identifier, is reused
\* without being re-created, truncated or re-seeded, and gets no line once
\* finalized; there is one sink per identifier read.
C13_Lifecycle ==
    /\ [](/\ closed \subseteq DOMAIN runOutputs
          /\ DOMAIN runOutputs \subseteq DOMAIN runFiles
          /\ LineDone =>
                DOMAIN runOutputs
                    = UNION {IdsOf(ReadLines[i]) : i \in 1..Len(ReadLines)})
    /\ [][\A r \in DOMAIN runOutputs \cup DOMAIN runOutputs' : LifecycleStep(r)]_vars

\* Sink 1 created by the first line, reused by the third, then finalized.
C13_Witness ==
    /\ pc = "promote"
    /\ closed = {<<"1">>}
    /\ ReadLines = <<LineRun1 \o <<NL>>, LineGlobal \o <<NL>>, LineRun1 \o <<NL>>>>
    /\ runFiles[<<"1">>] = input

\* The files a completed run leaves, as a function of the input alone: one
\* file per identifier with the no-token lines and the lines tagged with
\* it, or the fallback file; no temp file.
OutputOf(in) ==
    LET ls == LinesOf(WithFinalNewline(in))
        ids == UNION {IdsOf(ls[i]) : i \in 1..Len(ls)}
    IN [runs |-> [R \in ids |->
                    Concat(Pick(ls, [i \in 1..Len(ls) |->
                                       IsGlobalLine(ls[i]) \/ R \in IdsOf(ls[i])]))],
        unknown |-> IF ids = {} THEN [exists |-> TRUE, data |-> Concat(ls)]
                    ELSE NoFile,
        tmp |-> NoFile]

\* C14: whatever the order in which the identifiers of a line and the open
\* sinks are visited, the files of a completed run are the same function of
\* the input, and after each line the sinks are the same function of the
\* lines read.
C14_OrderIndependent ==
    /\ pc = "done" =>
          [runs |-> runFiles, unknown |-> unknown, tmp |-> tmp] = OutputOf(input)
    /\ LineDone =>
          \A r \in DOMAIN runOutputs :
              SinkContent(r) = OutputOf(SubSeq(input, 1, pos)).runs[r]

\* A line with two identifiers (two sinks created in either order), then a
\* third sink, then a no-token line broadcast to the three in any order.
C14_Witness ==
    /\ pc = "done"
    /\ input = Stream(<<LineRun1And2, LineRun01, LineGlobal>>, TRUE)
    /\ DOMAIN runFiles = {<<"1">>, <<"2">>, <<"0", "1">>}

\* The loop is over without an abort and the common temp file is still there.
LoopEnded == pc \in {"flushCommon", "finalize", "promote"}

EndsWith(b, l) == Len(l) <= Len(b) /\ SubSeq(b, Len(b) - Len(l) + 1, Len(b)) = l
HasEmptyLine(b) == \E i \in 1..Len(b) : b[i] = NL /\ (i = 1 \/ b[i - 1] = NL)

\* C15: a final line without a line boundary is not dropped and goes where
\* the same line with a terminator goes (the Common Buffer and every open
\* sink, or the sinks of its identifiers, and nowhere else); an input ending
\* right after a line boundary gives no extra empty line.
C15_FinalLine ==
    (LoopEnded /\ input # <<>>) =>
        LET raw == LinesOf(input)
            n == Len(raw)
            unterminated == input[Len(input)] # NL
            fl == WithFinalNewline(raw[n])
            before == LinesOf(SubSeq(input, 1, Len(input) - Len(raw[n])))
            idsBefore == UNION {IdsOf(before[i]) : i \in 1..Len(before)}
        IN /\ pos = Len(input)
           /\ unterminated =>
                 IF IdsOf(fl) = {}
                 THEN /\ CommonContent = Concat(GlobalOnly(before)) \o fl
                      /\ DOMAIN runOutputs = idsBefore
                      /\ \A r \in idsBefore :
                            SinkContent(r) = Concat(ExpectedSink(r, before)) \o fl
                 ELSE /\ CommonContent = Concat(GlobalOnly(before))
                      /\ DOMAIN runOutputs = idsBefore \cup IdsOf(fl)
                      /\ \A r \in IdsOf(fl) : EndsWith(SinkContent(r), fl)
                      /\ \A r \in idsBefore \ IdsOf(fl) :
                            SinkContent(r) = Concat(ExpectedSink(r, before))
           /\ Len(LinesOf(CommonContent)) = Len(GlobalOnly(AllLines))
           /\ \A r \in DOMAIN runOutputs :
                 /\ ~HasEmptyLine(SinkContent(r))
                 /\ Len(LinesOf(SinkContent(r))) = Len(ExpectedSink(r, AllLines))
           /\ ~HasEmptyLine(CommonContent)

\* The loop has ended on an unterminated tagged line that opened its sink,
\* after a no-token line.
C15_Witness ==
    /\ pc = "flushCommon"
    /\ input = Stream(<<LineRun2, LineGlobal, LineRun1>>, FALSE)
    /\ EndsWith(SinkContent(<<"1">>), LineRun1 \o <<NL>>)

Malformed == LineMalformed \o <<NL>>

\* C17: a line whose only token-like substring has a non-digit middle
\* component gives no identifier: it is never routed as a tagged line, it
\* is appended to the Common Buffer and to every sink open when it is read,
\* and it creates no sink.
C17_MalformedIsGlobal ==
    /\ FindAllStringSubmatch(Malformed) = <<>>
    /\ pc = "route" => line # Malformed
    /\ LineDone =>
          LET rl == ReadLines
              at == {i \in 1..Len(rl) : rl[i] = Malformed}
          IN /\ BufferLive =>
                   Count(Malformed, LinesOf(CommonContent)) = Cardinality(at)
             /\ \A r \in DOMAIN runOutputs :
                   Count(Malformed, LinesOf(SinkContent(r))) = Cardinality(at)
             /\ DOMAIN runOutputs
                   = UNION {IdsOf(rl[i]) : i \in (1..Len(rl)) \ at}
             /\ (at = 1..Len(rl)) => (~anyRunFound /\ DOMAIN runFiles = {})

\* The malformed line has been read with a sink open and is in that sink and
\* in the Common Buffer.
C17_Witness ==
    /\ pc = "read"
    /\ ReadLines = <<LineRun1 \o <<NL>>, Malformed>>
    /\ Count(Malformed, LinesOf(SinkContent(<<"1">>))) = 1
    /\ Count(Malformed, LinesOf(CommonContent)) = 1
    /\ DOMAIN runOutputs = {<<"1">>}

\* C18: in every state, the state at a fatal exit included, the bytes on
\* disk of each run file and of the common temp file are a prefix of what
\* that sink has been given by the lines read so far: an abort leaves a
\* truncated output, never a garbled or reordered one.
C18_DiskPrefix ==
    LET rl == ReadLines
    IN /\ \A r \in DOMAIN runFiles :
             /\ r \in UNION {IdsOf(rl[i]) : i \in 1..Len(rl)}
             /\ IsPrefix(runFiles[r], Concat(ExpectedSink(r, rl)))
       /\ tmp.exists => IsPrefix(tmp.data, Concat(GlobalOnly(rl)))

\* A fatal exit that left a run file cut in the middle of a line, after a
\* whole line, and the common temp file behind.
C18_Witness ==
    /\ pc = "fatal"
    /\ tmp.exists
    /\ \E r \in DOMAIN runFiles :
          /\ Len(runFiles[r]) > Len(LineRun1) + 1
          /\ runFiles[r][Len(runFiles[r])] # NL
          /\ runFiles[r] # Concat(ExpectedSink(r, ReadLines))

====
